---- MODULE Spec2Model ----
(***************************************************************************)
(* Model of the homomorphic-encryption batch pipelines FHE_code.py and     *)
(* FHE_code_v2.py.  Each script is a straight-line program: the functions  *)
(* holder_encrypt_*, analyzer_process_* and holder_decrypt_* are sequences *)
(* of statements, and the script's top level calls them in order.  The     *)
(* model keeps that shape: a function body is a sequence of instructions   *)
(* transcribed statement by statement, a script is the concatenation of    *)
(* the bodies it calls, and there is one action per kind of statement.     *)
(*                                                                         *)
(* Numbers.  CKKS arithmetic is taken as exact: a CKKS plaintext value is  *)
(* a rational n/d (0.1 is 1/10, 1.05 is 21/20, 1.0/len is 1/N).  BFV       *)
(* arithmetic is arithmetic modulo the plaintext modulus, decoded to the   *)
(* signed range on decryption.  The script's plain_modulus 1099511922689   *)
(* does not fit TLC's 32-bit integers; PlainModulus is a small modulus     *)
(* with the same ring arithmetic, and the inputs are scaled with it.       *)
(***************************************************************************)
EXTENDS Integers, Sequences, FiniteSets, TLC

VARIABLES
    script,         \* which program runs
    salaries_list,  \* df["salary_cents"].tolist()
    bonus_list,     \* df["bonus_cents"].tolist()
    pc,             \* index of the next instruction of the program
    status,         \* "running", "done", or the exception that ended the run
    files,          \* the working directory: file name -> bytes
    fh,             \* the open file object f of the current with-block
    ct,             \* variables holding ciphertext vectors
    by,             \* variables holding bytes
    num,            \* variables holding plaintext numbers
    ctx,            \* the TenSEAL contexts created by setup_*
    active,         \* call stack of roles (holder / analyzer)
    keyHolders,     \* roles that were handed a context holding the secret key
    decryptLog,     \* who decrypted which ciphertext variable
    opLog,          \* the ciphertext operations executed so far, in order
    stageLog,       \* the functions called so far, in order
    shortRead,      \* some f.read(n) returned fewer than n bytes
    leftover,       \* bytes left unread when the last read handle was closed
    other           \* a second run of a script in the same working directory

inputs == <<script, salaries_list, bonus_list>>
io     == <<files, fh, shortRead, leftover>>
store  == <<ct, by, num>>
roles  == <<ctx, active, keyHolders, decryptLog, opLog, stageLog>>
vars   == <<inputs, pc, status, io, store, roles, other>>

(***************************************************************************)
(* Bounds of the model.                                                    *)
(***************************************************************************)
MaxN == 2           \* rows of the dataset: 1..MaxN
MaxVal == 1         \* salaries range over -1..MaxVal, bonuses over 0..MaxVal
PlainModulus == 401 \* plaintext modulus of the BFV context (scaled)
MaxSlotLen == 1     \* framing runs: length of an arbitrary slot
MaxByte == 1        \* framing runs: byte values 0..MaxByte
MaxBlobLen == 6     \* framing runs: length of an arbitrary blob on disk
MaxSharedN == 1     \* two runs in one directory: rows of the dataset

SalaryVals == (0 - 1)..MaxVal

BonusVals == 0..MaxVal

\* the bytes an arbitrary slot or blob is made of
Bytes == 0..MaxByte

\* the contents of an arbitrary slot
SlotVals == UNION {[1..n -> {0, 1}] : n \in 0..MaxSlotLen}

\* sequences over S of length lo..hi
SeqsOf(S, lo, hi) == UNION {[1..n -> S] : n \in lo..hi}

(***************************************************************************)
(* Plain numbers.  A number is (n/d) * sqrt(rn/rd); rn = rd = 1 for the    *)
(* rationals.                                                              *)
(***************************************************************************)
Rat(n, d) == [n |-> n, d |-> d, rn |-> 1, rd |-> 1]

\* equality of two rationals
RatEq(a, b) == a.n * b.d = b.n * a.d /\ a.rn = 1 /\ a.rd = 1 /\ b.rn = 1 /\ b.rd = 1

\* the sign of the rational part is the sign of n*d
RatNeg(a) == (a.n < 0 /\ a.d > 0) \/ (a.n > 0 /\ a.d < 0)

RECURSIVE SumSeq(_)
SumSeq(s) == IF s = <<>> THEN 0 ELSE s[1] + SumSeq(Tail(s))

Abs(x) == IF x < 0 THEN 0 - x ELSE x

RECURSIVE MaxAbs(_)
MaxAbs(s) == IF s = <<>> THEN 0
             ELSE LET m == MaxAbs(Tail(s)) IN IF Abs(s[1]) > m THEN Abs(s[1]) ELSE m

(***************************************************************************)
(* Bytes: int.to_bytes(4, 'big') and int.from_bytes(.., 'big').            *)
(***************************************************************************)
ToBytes4(n) ==
    << (n \div 16777216) % 256, (n \div 65536) % 256, (n \div 256) % 256, n % 256 >>

RECURSIVE FromBytesAcc(_, _)
FromBytesAcc(acc, bs) ==
    IF bs = <<>> THEN acc ELSE FromBytesAcc(256 * acc + bs[1], Tail(bs))

\* a mutant of FromBytesBig: the bytes taken in little-endian order
FromBytesLittle(bs) ==
    IF bs = <<>> THEN 0
    ELSE FromBytesAcc(0, [i \in 1..Len(bs) |-> bs[Len(bs) + 1 - i]])

\* int.from_bytes(bs, 'big'); bs may be shorter than 4 bytes at end of file
FromBytesBig(bs) == FromBytesAcc(0, bs)

(***************************************************************************)
(* Ciphertext vectors.  A vector is [scheme, v, d, lvl]: slot i holds      *)
(* v[i]/d (d = 1 and v[i] in 0..PlainModulus-1 under BFV); lvl is the      *)
(* number of chained multiplications the vector is the result of, that is  *)
(* the number of primes of the CKKS modulus chain rescaling has used up.   *)
(***************************************************************************)
Norm(sch, x) == IF sch = "bfv" THEN x % PlainModulus ELSE x

\* coeff_mod_bit_sizes=[60, 40, 40, 40, 60]: three 40-bit primes to rescale by
DepthBudget == 3

\* the level of the product of a vector at level lvl: each CKKS
\* multiplication rescales by one prime; BFV has no chain to descend
Deeper(sch, lvl) == IF sch = "ckks" THEN lvl + 1 ELSE lvl

\* a multiplication of c has no prime left to rescale by
Exhausted(c) == c.scheme = "ckks" /\ c.lvl >= DepthBudget

\* ts.ckks_vector(context, list) / ts.bfv_vector(context, list)
Encrypt(sch, list) ==
    [scheme |-> sch, v |-> [i \in 1..Len(list) |-> Norm(sch, list[i])], d |-> 1,
     lvl |-> 0]

\* vec.sum(): a one-slot vector holding the sum of the slots
CtSum(c) == [c EXCEPT !.v = << Norm(c.scheme, SumSeq(c.v)) >>]

\* vec.mul(k) / vec * k for a plaintext scalar k = p/q (q = 1 under BFV)
CtMulPlain(c, p, q) ==
    [c EXCEPT !.v = [i \in 1..Len(c.v) |-> Norm(c.scheme, c.v[i] * p)],
              !.d = c.d * q,
              !.lvl = Deeper(c.scheme, c.lvl)]

\* a + b, slot by slot
CtAdd(a, b) ==
    [scheme |-> a.scheme,
     v |-> [i \in 1..Len(a.v) |-> Norm(a.scheme, a.v[i] * b.d + b.v[i] * a.d)],
     d |-> a.d * b.d,
     lvl |-> IF a.lvl > b.lvl THEN a.lvl ELSE b.lvl]

\* vec - m for a plaintext scalar m
CtSubPlain(c, m) ==
    [c EXCEPT !.v = [i \in 1..Len(c.v) |-> Norm(c.scheme, c.v[i] * m.d - m.n * c.d)],
              !.d = c.d * m.d]

\* a mutant of CtSquare: 2 * x in place of x ** 2
CtSquareAsDouble(c) ==
    [c EXCEPT !.v = [i \in 1..Len(c.v) |-> Norm(c.scheme, c.v[i] * 2)],
              !.d = c.d * c.d,
              !.lvl = Deeper(c.scheme, c.lvl)]

\* vec ** 2
CtSquare(c) ==
    [c EXCEPT !.v = [i \in 1..Len(c.v) |-> Norm(c.scheme, c.v[i] * c.v[i])],
              !.d = c.d * c.d,
              !.lvl = Deeper(c.scheme, c.lvl)]

\* a mutant of Centered: the residue taken as it is
CenteredNoSign(x) == x

\* BFV decoding: residues above PlainModulus/2 are negative
Centered(x) == IF 2 * x > PlainModulus THEN x - PlainModulus ELSE x

\* vec.decrypt()[0]
Decrypt0(c) ==
    IF c.scheme = "bfv" THEN Rat(Centered(c.v[1]), 1) ELSE Rat(c.v[1], c.d)

(***************************************************************************)
(* vec.serialize() and ts.*_vector_from(context, bytes).  The library's    *)
(* byte format is opaque to the scripts; what they rely on is that it is   *)
(* self-delimiting only through its length and that *_vector_from gives    *)
(* back the vector.  The model's format: scheme tag, slot count, level,    *)
(* then d and every slot as three big-endian bytes (offset binary).        *)
(***************************************************************************)
EncInt3(n) ==
    LET u == n + 8388608 IN << u \div 65536, (u \div 256) % 256, u % 256 >>

DecInt3(bs) == (bs[1] * 65536 + bs[2] * 256 + bs[3]) - 8388608

RECURSIVE EncSlots(_)
EncSlots(v) == IF v = <<>> THEN <<>> ELSE EncInt3(v[1]) \o EncSlots(Tail(v))

Serialize(c) ==
    << IF c.scheme = "ckks" THEN 1 ELSE 2, Len(c.v), c.lvl >>
    \o EncInt3(c.d) \o EncSlots(c.v)

\* can these bytes be loaded as a vector of scheme sch
Loadable(sch, bs) ==
    /\ Len(bs) >= 6
    /\ bs[1] = (IF sch = "ckks" THEN 1 ELSE 2)
    /\ Len(bs) = 6 + 3 * bs[2]

Deserialize(sch, bs) ==
    [scheme |-> sch,
     v |-> [i \in 1..bs[2] |-> DecInt3(SubSeq(bs, 4 + 3 * i, 6 + 3 * i))],
     d |-> DecInt3(SubSeq(bs, 4, 6)),
     lvl |-> bs[3]]

(***************************************************************************)
(* Instructions.  One record per statement (or sub-expression) of the      *)
(* scripts: op is the kind of statement, dst the variable assigned, src    *)
(* and aux the variables or names read, k a literal.                       *)
(***************************************************************************)
I(op, dst, src, aux) == [op |-> op, dst |-> dst, src |-> src, aux |-> aux, k |-> <<1, 1>>]

IK(op, dst, src, k) == [op |-> op, dst |-> dst, src |-> src, aux |-> "", k |-> k]

\* with open(file, "wb") as f: one length-prefixed slot per name of sers
RECURSIVE WriteSlots(_)
WriteSlots(sers) ==
    IF sers = <<>> THEN <<>>
    ELSE << I("write_len", "", sers[1], ""), I("write", "", sers[1], "") >>
         \o WriteSlots(Tail(sers))

\* holder_encrypt_ckks / holder_encrypt_bfv: the blob is
\* len(ser_s) as 4 bytes, ser_s, then ser_b without a prefix
HolderEncrypt(sch, file) ==
    LET p == "he_" \o sch \o "." IN
    << I("call", "holder_encrypt_" \o sch, "holder", "ctx_" \o sch),
       I("encrypt", p \o "enc_s", "salaries_list", sch),
       I("encrypt", p \o "enc_b", "bonus_list", sch),
       I("serialize", p \o "ser_s", p \o "enc_s", ""),
       I("serialize", p \o "ser_b", p \o "enc_b", ""),
       I("open_w", file, "", ""),
       I("write_len", "", p \o "ser_s", ""),
       I("write", "", p \o "ser_s", ""),
       I("write", "", p \o "ser_b", ""),
       I("close", "", "", ""),
       I("return", "", "", "") >>

\* the reading half of every analyzer_process_* that loads both vectors
AnalyzerReadBoth(p, sch, in_file) ==
    << I("open_r", "", in_file, ""),
       I("read_len", p \o "size_s", "", ""),
       I("read_n", p \o "bytes_s", p \o "size_s", ""),
       I("read_all", p \o "bytes_b", "", ""),
       I("close", "", "", ""),
       I("deserialize", p \o "enc_s", p \o "bytes_s", sch),
       I("deserialize", p \o "enc_b", p \o "bytes_b", sch) >>

\* enc_result = (enc_s + enc_b.mul(0.1)).mul(1.05); enc_total = enc_result.sum()
FormulaCkks(p) ==
    << IK("mul_plain", p \o "t_b01", p \o "enc_b", <<1, 10>>),
       I("add", p \o "t_sum", p \o "enc_s", p \o "t_b01"),
       IK("mul_plain", p \o "enc_result", p \o "t_sum", <<21, 20>>),
       I("sum", p \o "enc_total", p \o "enc_result", "") >>

\* a mutant of FormulaBfv: post-multiplier 20 in place of 21
FormulaBfvWrongMultiplier(p) ==
    << IK("mul_plain", p \o "t_s10", p \o "enc_s", <<10, 1>>),
       I("add", p \o "t_sum", p \o "t_s10", p \o "enc_b"),
       IK("mul_plain", p \o "t_x21", p \o "t_sum", <<20, 1>>),
       I("sum", p \o "enc_result", p \o "t_x21", "") >>

\* enc_result = (enc_s.mul(10) + enc_b).mul(21).sum()
FormulaBfv(p) ==
    << IK("mul_plain", p \o "t_s10", p \o "enc_s", <<10, 1>>),
       I("add", p \o "t_sum", p \o "t_s10", p \o "enc_b"),
       IK("mul_plain", p \o "t_x21", p \o "t_sum", <<21, 1>>),
       I("sum", p \o "enc_result", p \o "t_x21", "") >>

(***************************************************************************)
(* FHE_code.py                                                             *)
(***************************************************************************)
AnalyzerProcessCkksV1(in_file, out_file) ==
    LET p == "ap_ckks." IN
    << I("call", "analyzer_process_ckks", "analyzer", "ctx_ckks") >>
    \o AnalyzerReadBoth(p, "ckks", in_file)
    \o FormulaCkks(p)
    \o << I("open_w", out_file, "", ""),
          I("serialize", p \o "ser_total", p \o "enc_total", "") >>
    \o WriteSlots(<< p \o "ser_total" >>)
    \o << I("close", "", "", ""), I("return", "", "", "") >>

HolderDecryptCkksV1(file) ==
    LET p == "hd_ckks." IN
    << I("call", "holder_decrypt_ckks", "holder", "ctx_ckks"),
       I("open_r", "", file, ""),
       I("read_len", p \o "size5", "", ""),
       I("read_n", p \o "b5", p \o "size5", ""),
       I("deserialize", p \o "enc_total", p \o "b5", "ckks"),
       I("close", "", "", ""),
       I("decrypt0", p \o "total_result", p \o "enc_total", ""),
       I("retval", "final_ckks", p \o "total_result", ""),
       I("return", "", "", "") >>

AnalyzerProcessBfvV1(in_file, out_file) ==
    LET p == "ap_bfv." IN
    << I("call", "analyzer_process_bfv", "analyzer", "ctx_bfv") >>
    \o AnalyzerReadBoth(p, "bfv", in_file)
    \o FormulaBfv(p)
    \o << I("open_w", out_file, "", ""),
          I("serialize", p \o "ser_total", p \o "enc_result", "") >>
    \o WriteSlots(<< p \o "ser_total" >>)
    \o << I("close", "", "", ""), I("return", "", "", "") >>

\* holder_decrypt_bfv returning the decrypted numerator undivided
HolderDecryptBfvV1Undivided(file) ==
    LET p == "hd_bfv." IN
    << I("call", "holder_decrypt_bfv", "holder", "ctx_bfv"),
       I("open_r", "", file, ""),
       I("read_len", p \o "size3", "", ""),
       I("read_n", p \o "b3", p \o "size3", ""),
       I("deserialize", p \o "enc_total", p \o "b3", "bfv"),
       I("close", "", "", ""),
       I("decrypt0", p \o "total_numerator", p \o "enc_total", ""),
       I("retval", "final_bfv", p \o "total_numerator", ""),
       I("return", "", "", "") >>

HolderDecryptBfvV1(file) ==
    LET p == "hd_bfv." IN
    << I("call", "holder_decrypt_bfv", "holder", "ctx_bfv"),
       I("open_r", "", file, ""),
       I("read_len", p \o "size3", "", ""),
       I("read_n", p \o "b3", p \o "size3", ""),
       I("deserialize", p \o "enc_total", p \o "b3", "bfv"),
       I("close", "", "", ""),
       I("decrypt0", p \o "total_numerator", p \o "enc_total", ""),
       IK("div", p \o "total_result", p \o "total_numerator", <<200, 1>>),
       I("retval", "final_bfv", p \o "total_result", ""),
       I("return", "", "", "") >>

CleanupFilesV1 == {"enc_ckks.dat", "res_ckks.dat", "enc_bfv.dat", "res_bfv.dat"}

\* "Execution CKKS" with the analyzer called before the holder has encrypted
RunCkksV1Swapped ==
    << I("setup", "ctx_ckks", "", "ckks") >>
    \o AnalyzerProcessCkksV1("enc_ckks.dat", "res_ckks.dat")
    \o HolderEncrypt("ckks", "enc_ckks.dat")
    \o HolderDecryptCkksV1("res_ckks.dat")

\* Execution CKKS
RunCkksV1 ==
    << I("setup", "ctx_ckks", "", "ckks") >>
    \o HolderEncrypt("ckks", "enc_ckks.dat")
    \o AnalyzerProcessCkksV1("enc_ckks.dat", "res_ckks.dat")
    \o HolderDecryptCkksV1("res_ckks.dat")

\* Execution BFV
RunBfvV1 ==
    << I("setup", "ctx_bfv", "", "bfv") >>
    \o HolderEncrypt("bfv", "enc_bfv.dat")
    \o AnalyzerProcessBfvV1("enc_bfv.dat", "res_bfv.dat")
    \o HolderDecryptBfvV1("res_bfv.dat")

\* VERIFICATION
VerifyV1 == << I("ground_truth", "real_total", "", "") >>

ProgV1 == << I("cleanup", "", "", "v1") >> \o RunCkksV1 \o RunBfvV1 \o VerifyV1

(***************************************************************************)
(* FHE_code_v2.py                                                          *)
(***************************************************************************)
\* the mean and variance of one field, lines 67-68 (salary) and 71-72 (bonus):
\*   enc_f_mean     = enc.sum() * (1.0 / len(list))
\*   enc_f_variance = ((enc - enc_f_mean.decrypt()[0]) ** 2).sum() * (1.0 / len(list))
\* with the variance taken around the other field's mean (a mutant)
FieldStatsOtherMean(p, f, enc, list) ==
    LET g == IF f = "salary" THEN "bonus" ELSE "salary" IN
    << I("sum", p \o f \o "_sum", enc, ""),
       I("mul_inv_len", p \o "enc_" \o f \o "_mean", p \o f \o "_sum", list),
       I("decrypt0", p \o f \o "_mean_plain", p \o "enc_" \o f \o "_mean", ""),
       I("sub_plain", p \o f \o "_centered", enc,
         IF f = "bonus" THEN p \o g \o "_mean_plain" ELSE p \o f \o "_mean_plain"),
       I("square", p \o f \o "_squared", p \o f \o "_centered", ""),
       I("sum", p \o f \o "_sqsum", p \o f \o "_squared", ""),
       I("mul_inv_len", p \o "enc_" \o f \o "_variance", p \o f \o "_sqsum", list) >>

\* with the variance computed before the mean is decrypted (a mutant)
FieldStatsVarianceFirst(p, f, enc, list) ==
    << I("sum", p \o f \o "_sum", enc, ""),
       I("mul_inv_len", p \o "enc_" \o f \o "_mean", p \o f \o "_sum", list),
       I("square", p \o f \o "_squared", enc, ""),
       I("sum", p \o f \o "_sqsum", p \o f \o "_squared", ""),
       I("mul_inv_len", p \o "enc_" \o f \o "_variance", p \o f \o "_sqsum", list),
       I("decrypt0", p \o f \o "_mean_plain", p \o "enc_" \o f \o "_mean", ""),
       I("sub_plain", p \o f \o "_centered", enc, p \o f \o "_mean_plain") >>

\* the variance taken from the fourth power ((...) ** 4) of the centered
\* values (a mutant)
FieldStatsFourthPower(p, f, enc, list) ==
    << I("sum", p \o f \o "_sum", enc, ""),
       I("mul_inv_len", p \o "enc_" \o f \o "_mean", p \o f \o "_sum", list),
       I("decrypt0", p \o f \o "_mean_plain", p \o "enc_" \o f \o "_mean", ""),
       I("sub_plain", p \o f \o "_centered", enc, p \o f \o "_mean_plain"),
       I("square", p \o f \o "_squared", p \o f \o "_centered", ""),
       I("square", p \o f \o "_squared", p \o f \o "_squared", ""),
       I("sum", p \o f \o "_sqsum", p \o f \o "_squared", ""),
       I("mul_inv_len", p \o "enc_" \o f \o "_variance", p \o f \o "_sqsum", list) >>

FieldStats(p, f, enc, list) ==
    << I("sum", p \o f \o "_sum", enc, ""),
       I("mul_inv_len", p \o "enc_" \o f \o "_mean", p \o f \o "_sum", list),
       I("decrypt0", p \o f \o "_mean_plain", p \o "enc_" \o f \o "_mean", ""),
       I("sub_plain", p \o f \o "_centered", enc, p \o f \o "_mean_plain"),
       I("square", p \o f \o "_squared", p \o f \o "_centered", ""),
       I("sum", p \o f \o "_sqsum", p \o f \o "_squared", ""),
       I("mul_inv_len", p \o "enc_" \o f \o "_variance", p \o f \o "_sqsum", list) >>

\* the ser_* variables of analyzer_process_ckks, in the order they are written
CkksStatsSlots ==
    << "ser_sal_mean", "ser_sal_var", "ser_bon_mean", "ser_bon_var", "ser_total" >>

\* the enc_* variable each of them serializes
CkksStatsSources ==
    << "enc_salary_mean", "enc_salary_variance", "enc_bonus_mean",
       "enc_bonus_variance", "enc_total" >>

Prefixed(p, names) == [i \in 1..Len(names) |-> p \o names[i]]

AnalyzerProcessCkksStats(in_file, out_file) ==
    LET p == "ap_ckks." IN
    << I("call", "analyzer_process_ckks", "analyzer", "ctx_ckks") >>
    \o AnalyzerReadBoth(p, "ckks", in_file)
    \o FieldStats(p, "salary", p \o "enc_s", "salaries_list")
    \o FieldStats(p, "bonus", p \o "enc_b", "bonus_list")
    \o FormulaCkks(p)
    \o << I("open_w", out_file, "", "") >>
    \o [i \in 1..5 |-> I("serialize", p \o CkksStatsSlots[i], p \o CkksStatsSources[i], "")]
    \o WriteSlots(Prefixed(p, CkksStatsSlots))
    \o << I("close", "", "", ""), I("return", "", "", "") >>

\* one "size = from_bytes(f.read(4)); enc = vector_from(context, f.read(size))"
\* per name of encs
RECURSIVE ReadSlots(_, _, _)
ReadSlots(p, sch, encs) ==
    IF encs = <<>> THEN <<>>
    ELSE << I("read_len", p \o "size_" \o encs[1], "", ""),
            I("read_n", p \o "raw_" \o encs[1], p \o "size_" \o encs[1], ""),
            I("deserialize", p \o encs[1], p \o "raw_" \o encs[1], sch) >>
         \o ReadSlots(p, sch, Tail(encs))

\* the order in which holder_decrypt_ckks reads the slots, with the two
\* variances bound the other way round (a mutant)
CkksStatsReadOrderSwapped ==
    << "enc_sal_mean", "enc_bon_var", "enc_bon_mean", "enc_sal_var", "enc_total" >>

\* the order in which holder_decrypt_ckks reads the slots
CkksStatsReadOrder ==
    << "enc_sal_mean", "enc_sal_var", "enc_bon_mean", "enc_bon_var", "enc_total" >>

HolderDecryptCkksStats(file) ==
    LET p == "hd_ckks." IN
    << I("call", "holder_decrypt_ckks", "holder", "ctx_ckks"),
       I("open_r", "", file, "") >>
    \o ReadSlots(p, "ckks", CkksStatsReadOrder)
    \o << I("close", "", "", ""),
          I("decrypt0", p \o "salary_mean", p \o "enc_sal_mean", ""),
          I("decrypt0", p \o "salary_var", p \o "enc_sal_var", ""),
          I("decrypt0", p \o "bonus_mean", p \o "enc_bon_mean", ""),
          I("decrypt0", p \o "bonus_var", p \o "enc_bon_var", ""),
          I("decrypt0", p \o "total_result", p \o "enc_total", ""),
          I("sqrt", p \o "salary_std", p \o "salary_var", ""),
          I("sqrt", p \o "bonus_std", p \o "bonus_var", ""),
          I("retval", "ckks_stats.salary_mean", p \o "salary_mean", ""),
          I("retval", "ckks_stats.salary_variance", p \o "salary_var", ""),
          I("retval", "ckks_stats.salary_std", p \o "salary_std", ""),
          I("retval", "ckks_stats.bonus_mean", p \o "bonus_mean", ""),
          I("retval", "ckks_stats.bonus_variance", p \o "bonus_var", ""),
          I("retval", "ckks_stats.bonus_std", p \o "bonus_std", ""),
          I("retval", "ckks_stats.total_result", p \o "total_result", ""),
          I("return", "", "", "") >>

\* Z-Score examples (for first value in each list)
ZScores ==
    << IK("zscore", "z_score_salary_first", "salaries_list",
          << "ckks_stats.salary_mean", "ckks_stats.salary_std" >>),
       IK("zscore", "z_score_bonus_first", "bonus_list",
          << "ckks_stats.bonus_mean", "ckks_stats.bonus_std" >>) >>

BfvStatsSlots == << "ser_sal_sum", "ser_bon_sum", "ser_total" >>

BfvStatsSources == << "enc_salary_sum", "enc_bonus_sum", "enc_result" >>

AnalyzerProcessBfvStats(in_file, out_file) ==
    LET p == "ap_bfv." IN
    << I("call", "analyzer_process_bfv", "analyzer", "ctx_bfv") >>
    \o AnalyzerReadBoth(p, "bfv", in_file)
    \o << I("sum", p \o "enc_salary_sum", p \o "enc_s", ""),
          I("sum", p \o "enc_bonus_sum", p \o "enc_b", "") >>
    \o FormulaBfv(p)
    \o << I("open_w", out_file, "", "") >>
    \o [i \in 1..3 |-> I("serialize", p \o BfvStatsSlots[i], p \o BfvStatsSources[i], "")]
    \o WriteSlots(Prefixed(p, BfvStatsSlots))
    \o << I("close", "", "", ""), I("return", "", "", "") >>

BfvStatsReadOrder == << "enc_sal_sum", "enc_bon_sum", "enc_total" >>

HolderDecryptBfvStats(file) ==
    LET p == "hd_bfv." IN
    << I("call", "holder_decrypt_bfv", "holder", "ctx_bfv"),
       I("open_r", "", file, "") >>
    \o ReadSlots(p, "bfv", BfvStatsReadOrder)
    \o << I("close", "", "", ""),
          I("decrypt0", p \o "salary_sum", p \o "enc_sal_sum", ""),
          I("decrypt0", p \o "bonus_sum", p \o "enc_bon_sum", ""),
          I("decrypt0", p \o "total_numerator", p \o "enc_total", ""),
          IK("div", p \o "total_result", p \o "total_numerator", <<200, 1>>),
          I("retval", "bfv_stats.salary_sum", p \o "salary_sum", ""),
          I("retval", "bfv_stats.bonus_sum", p \o "bonus_sum", ""),
          I("retval", "bfv_stats.total_result", p \o "total_result", ""),
          I("return", "", "", "") >>

CleanupFilesV2 ==
    {"enc_ckks.dat", "res_ckks_stats.dat", "enc_bfv.dat", "res_bfv_stats.dat",
     "enc_ckks_perf.dat", "res_ckks_add.dat", "res_ckks_mul.dat",
     "enc_bfv_perf.dat", "res_bfv_add.dat", "res_bfv_mul.dat"}

\* Execution CKKS Statistics, and the z-scores printed after it
RunCkksStats ==
    << I("setup", "ctx_ckks", "", "ckks") >>
    \o HolderEncrypt("ckks", "enc_ckks.dat")
    \o AnalyzerProcessCkksStats("enc_ckks.dat", "res_ckks_stats.dat")
    \o HolderDecryptCkksStats("res_ckks_stats.dat")
    \o ZScores

\* Execution BFV Statistics
RunBfvStats ==
    << I("setup", "ctx_bfv", "", "bfv") >>
    \o HolderEncrypt("bfv", "enc_bfv.dat")
    \o AnalyzerProcessBfvStats("enc_bfv.dat", "res_bfv_stats.dat")
    \o HolderDecryptBfvStats("res_bfv_stats.dat")

\* VERIFICATION AND COMPARISON: the ground truth calculations
VerifyV2 ==
    << I("ground_truth", "real_salary_sum", "", ""),
       I("ground_truth", "real_bonus_sum", "", ""),
       I("ground_truth", "real_salary_mean", "", ""),
       I("ground_truth", "real_bonus_mean", "", ""),
       I("ground_truth", "real_salary_var", "", ""),
       I("ground_truth", "real_bonus_var", "", ""),
       I("ground_truth", "real_salary_mul", "", ""),
       I("ground_truth", "real_total", "", "") >>

(***************************************************************************)
(* FHE_code_v2.py, PERFORMANCE COMPARISON: addition and multiplication     *)
(***************************************************************************)
\* with open(out_file, "wb") as f: f.write(enc.serialize())   (no prefix)
WriteBare(p, out_file, enc) ==
    << I("open_w", out_file, "", ""),
       I("serialize", p \o "ser_out", enc, ""),
       I("write", "", p \o "ser_out", ""),
       I("close", "", "", ""),
       I("return", "", "", "") >>

\* analyzer_process_ckks_addition: reads both slots, sums the salaries
AnalyzerProcessCkksAddition(in_file, out_file) ==
    LET p == "apa_ckks." IN
    << I("call", "analyzer_process_ckks_addition", "analyzer", "ctx_ckks"),
       I("open_r", "", in_file, ""),
       I("read_len", p \o "size_s", "", ""),
       I("read_n", p \o "bytes_s", p \o "size_s", ""),
       I("read_all", p \o "bytes_b", "", ""),
       I("close", "", "", ""),
       I("deserialize", p \o "enc_s", p \o "bytes_s", "ckks"),
       I("sum", p \o "enc_salary_sum", p \o "enc_s", "") >>
    \o WriteBare(p, out_file, p \o "enc_salary_sum")

\* analyzer_process_bfv_addition: reads the first slot only
AnalyzerProcessBfvAddition(in_file, out_file) ==
    LET p == "apa_bfv." IN
    << I("call", "analyzer_process_bfv_addition", "analyzer", "ctx_bfv"),
       I("open_r", "", in_file, ""),
       I("read_len", p \o "size_s", "", ""),
       I("read_n", p \o "bytes_s", p \o "size_s", ""),
       I("close", "", "", ""),
       I("deserialize", p \o "enc_s", p \o "bytes_s", "bfv"),
       I("sum", p \o "enc_salary_sum", p \o "enc_s", "") >>
    \o WriteBare(p, out_file, p \o "enc_salary_sum")

\* analyzer_process_ckks_multiplication: reads the first slot only
AnalyzerProcessCkksMultiplication(in_file, out_file) ==
    LET p == "apm_ckks." IN
    << I("call", "analyzer_process_ckks_multiplication", "analyzer", "ctx_ckks"),
       I("open_r", "", in_file, ""),
       I("read_len", p \o "size_s", "", ""),
       I("read_n", p \o "bytes_s", p \o "size_s", ""),
       I("close", "", "", ""),
       I("deserialize", p \o "enc_s", p \o "bytes_s", "ckks"),
       IK("mul_plain", p \o "enc_salary_mul", p \o "enc_s", <<2, 1>>),
       I("sum", p \o "enc_result", p \o "enc_salary_mul", "") >>
    \o WriteBare(p, out_file, p \o "enc_result")

\* analyzer_process_bfv_multiplication: reads both slots
AnalyzerProcessBfvMultiplication(in_file, out_file) ==
    LET p == "apm_bfv." IN
    << I("call", "analyzer_process_bfv_multiplication", "analyzer", "ctx_bfv"),
       I("open_r", "", in_file, ""),
       I("read_len", p \o "size_s", "", ""),
       I("read_n", p \o "bytes_s", p \o "size_s", ""),
       I("read_all", p \o "bytes_b", "", ""),
       I("close", "", "", ""),
       I("deserialize", p \o "enc_s", p \o "bytes_s", "bfv"),
       IK("mul_plain", p \o "enc_salary_mul", p \o "enc_s", <<2, 1>>),
       I("sum", p \o "enc_result", p \o "enc_salary_mul", "") >>
    \o WriteBare(p, out_file, p \o "enc_result")

\* holder_decrypt_ckks_simple / holder_decrypt_bfv_simple; result is the
\* top-level variable the call's value is assigned to
HolderDecryptSimple(sch, file, result) ==
    LET p == "hds_" \o sch \o "." IN
    << I("call", "holder_decrypt_" \o sch \o "_simple", "holder", "ctx_" \o sch),
       I("open_r", "", file, ""),
       I("read_all", p \o "bytes_res", "", ""),
       I("close", "", "", ""),
       I("deserialize", p \o "enc_res", p \o "bytes_res", sch),
       I("decrypt0", p \o "res", p \o "enc_res", ""),
       I("retval", result, p \o "res", ""),
       I("return", "", "", "") >>

\* the four performance runs, in script order
RunPerf ==
    HolderEncrypt("ckks", "enc_ckks_perf.dat")
    \o AnalyzerProcessCkksAddition("enc_ckks_perf.dat", "res_ckks_add.dat")
    \o HolderDecryptSimple("ckks", "res_ckks_add.dat", "result_ckks_add")
    \o HolderEncrypt("bfv", "enc_bfv_perf.dat")
    \o AnalyzerProcessBfvAddition("enc_bfv_perf.dat", "res_bfv_add.dat")
    \o HolderDecryptSimple("bfv", "res_bfv_add.dat", "result_bfv_add")
    \o HolderEncrypt("ckks", "enc_ckks_perf.dat")
    \o AnalyzerProcessCkksMultiplication("enc_ckks_perf.dat", "res_ckks_mul.dat")
    \o HolderDecryptSimple("ckks", "res_ckks_mul.dat", "result_ckks_mul")
    \o HolderEncrypt("bfv", "enc_bfv_perf.dat")
    \o AnalyzerProcessBfvMultiplication("enc_bfv_perf.dat", "res_bfv_mul.dat")
    \o HolderDecryptSimple("bfv", "res_bfv_mul.dat", "result_bfv_mul")

ProgV2 ==
    << I("cleanup", "", "", "v2") >> \o RunCkksStats \o RunBfvStats \o RunPerf \o VerifyV2

(***************************************************************************)
(* Framing runs: only the file statements of a writer and of the reader    *)
(* that consumes its blob, on arbitrary slot contents; and a reader alone  *)
(* on an arbitrary blob found on disk.                                     *)
(***************************************************************************)
IsFileOp(ins) ==
    ins.op \in {"open_w", "write_len", "write", "close",
                "open_r", "read_len", "read_n", "read_all"}

\* index of the first open(.., "wb") of a body; Len + 1 when it has none
FirstOpenW(body) ==
    LET at == {i \in 1..Len(body) : body[i].op = "open_w"} IN
    IF at = {} THEN Len(body) + 1 ELSE CHOOSE i \in at : \A j \in at : i <= j

\* the file statements of the with-block that reads, and of the one that writes
ReadPart(body) == SelectSeq(SubSeq(body, 1, FirstOpenW(body) - 1), IsFileOp)

WritePart(body) == SelectSeq(SubSeq(body, FirstOpenW(body), Len(body)), IsFileOp)

\* writer followed by its reader
RoundTrips ==
    [ rt_in_ckks_v1 |-> WritePart(HolderEncrypt("ckks", "enc_ckks.dat"))
                        \o ReadPart(AnalyzerProcessCkksV1("enc_ckks.dat", "res_ckks.dat")),
      rt_in_bfv_v1  |-> WritePart(HolderEncrypt("bfv", "enc_bfv.dat"))
                        \o ReadPart(AnalyzerProcessBfvV1("enc_bfv.dat", "res_bfv.dat")),
      rt_res_ckks_v1 |-> WritePart(AnalyzerProcessCkksV1("enc_ckks.dat", "res_ckks.dat"))
                         \o ReadPart(HolderDecryptCkksV1("res_ckks.dat")),
      rt_res_bfv_v1  |-> WritePart(AnalyzerProcessBfvV1("enc_bfv.dat", "res_bfv.dat"))
                         \o ReadPart(HolderDecryptBfvV1("res_bfv.dat")),
      rt_res_ckks_stats |->
          WritePart(AnalyzerProcessCkksStats("enc_ckks.dat", "res_ckks_stats.dat"))
          \o ReadPart(HolderDecryptCkksStats("res_ckks_stats.dat")),
      rt_res_bfv_stats |->
          WritePart(AnalyzerProcessBfvStats("enc_bfv.dat", "res_bfv_stats.dat"))
          \o ReadPart(HolderDecryptBfvStats("res_bfv_stats.dat")) ]

\* a reader alone, and the file it opens
Readers ==
    [ rd_analyzer_ckks_v1 |-> ReadPart(AnalyzerProcessCkksV1("blob.dat", "out.dat")),
      rd_holder_bfv_v1    |-> ReadPart(HolderDecryptBfvV1("blob.dat")),
      rd_holder_ckks_stats |-> ReadPart(HolderDecryptCkksStats("blob.dat")),
      rd_holder_bfv_stats |-> ReadPart(HolderDecryptBfvStats("blob.dat")),
      rd_analyzer_bfv_addition |-> ReadPart(AnalyzerProcessBfvAddition("blob.dat", "out.dat")),
      rd_holder_simple |-> ReadPart(HolderDecryptSimple("bfv", "blob.dat", "result_bfv_add")) ]

\* the program the run executes
Prog ==
    CASE script = "v1" -> ProgV1
      [] script = "v2" -> ProgV2
      [] script \in DOMAIN RoundTrips -> RoundTrips[script]
      [] OTHER -> Readers[script]

(***************************************************************************)
(* State                                                                   *)
(***************************************************************************)
Closed == [name |-> "", mode |-> "closed", pos |-> 0]

NoVars == [x \in {} |-> 0]

Running == status = "running" /\ pc <= Len(Prog)

Cur == Prog[pc]

\* the role whose function is executing ("main": the script's top level)
Role == IF active = <<>> THEN "main" ELSE active[Len(active)]

Bind(f, name, val) == (name :> val) @@ f

Step == pc' = pc + 1 /\ status' = status

Fail(e) == pc' = pc /\ status' = e

List(name) == IF name = "salaries_list" THEN salaries_list ELSE bonus_list

\* the function whose body is executing
Fn == IF active = <<>> THEN "main" ELSE stageLog[Len(stageLog)]

\* an operation on a ciphertext, or a plaintext division, as executed: who
\* executed it, in which function and which call of it (its position in
\* stageLog), with which literal operand k (a fraction <<p, q>>), on or
\* into which variable
Logged(op, sch, k, var) ==
    opLog' = Append(opLog, [role |-> Role, fn |-> Fn,
                            call |-> IF active = <<>> THEN 0 ELSE Len(stageLog),
                            op |-> op, scheme |-> sch, k |-> k, var |-> var])

\* a file as the working directory holds it
File(data, writer, open) == [data |-> data, writer |-> writer, open |-> open]

\* a file left behind by an earlier execution of the script
Stale == ("enc_ckks.dat" :> File(<<0>>, "earlier", FALSE))

\* no second run in the working directory
NoOther == [script |-> "none", pc |-> 0, status |-> "done", payload |-> <<>>]

InitRun ==
    /\ pc = 1
    /\ status = "running"
    /\ fh = Closed
    /\ ct = NoVars
    /\ num = NoVars
    /\ ctx = NoVars
    /\ active = <<>>
    /\ keyHolders = {}
    /\ decryptLog = {}
    /\ opLog = <<>>
    /\ stageLog = <<>>
    /\ shortRead = FALSE
    /\ leftover = 0

\* the scripts: any dataset of 1..MaxN rows; salary_cents and bonus_cents are
\* columns of the same frame, so the lists have the same length
Init ==
    /\ script \in {"v1", "v2"}
    /\ \E n \in 1..MaxN :
          /\ salaries_list \in [1..n -> SalaryVals]
          /\ bonus_list \in [1..n -> BonusVals]
    /\ files \in {NoVars, Stale}
    /\ by = NoVars
    /\ other = NoOther
    /\ InitRun

(***************************************************************************)
(* Actions: one per kind of statement.                                     *)
(***************************************************************************)
\* cleanup(): os.remove every listed file that exists
DoCleanup ==
    /\ Running /\ Cur.op = "cleanup"
    /\ LET gone == IF Cur.aux = "v1" THEN CleanupFilesV1 ELSE CleanupFilesV2 IN
       files' = [f \in (DOMAIN files) \ gone |-> files[f]]
    /\ Step
    /\ UNCHANGED <<inputs, other, fh, shortRead, leftover, store, roles>>

\* ctx = setup_ckks() / setup_bfv(): ts.context(...) generates the key pair
\* and keeps the secret key in the context
DoSetup ==
    /\ Running /\ Cur.op = "setup"
    /\ ctx' = Bind(ctx, Cur.dst, [scheme |-> Cur.aux, secret |-> TRUE])
    /\ Step
    /\ UNCHANGED <<inputs, other, io, store, active, keyHolders, decryptLog, opLog, stageLog>>

\* a call of a holder_* or analyzer_* function with the context as argument
DoCall ==
    /\ Running /\ Cur.op = "call"
    /\ IF Cur.aux \notin DOMAIN ctx
       THEN Fail("NameError") /\ UNCHANGED <<active, stageLog, keyHolders>>
       ELSE /\ active' = Append(active, Cur.src)
            /\ stageLog' = Append(stageLog, Cur.dst)
            /\ keyHolders' = IF ctx[Cur.aux].secret THEN keyHolders \cup {Cur.src}
                             ELSE keyHolders
            /\ Step
    /\ UNCHANGED <<inputs, other, io, store, ctx, decryptLog, opLog>>

DoReturn ==
    /\ Running /\ Cur.op = "return"
    /\ active' = SubSeq(active, 1, Len(active) - 1)
    /\ Step
    /\ UNCHANGED <<inputs, other, io, store, ctx, keyHolders, decryptLog, opLog, stageLog>>

\* the value a function returns, bound to the top-level variable (or dict
\* entry) the script assigns it to
DoRetval ==
    /\ Running /\ Cur.op = "retval"
    /\ IF Cur.src \notin DOMAIN num
       THEN Fail("NameError") /\ UNCHANGED num
       ELSE num' = Bind(num, Cur.dst, num[Cur.src]) /\ Step
    /\ UNCHANGED <<inputs, other, io, ct, by, roles>>

\* enc = ts.ckks_vector(context, list) / ts.bfv_vector(context, list)
DoEncrypt ==
    /\ Running /\ Cur.op = "encrypt"
    /\ ct' = Bind(ct, Cur.dst, Encrypt(Cur.aux, List(Cur.src)))
    /\ Logged("encrypt", Cur.aux, <<1, 1>>, Cur.dst)
    /\ Step
    /\ UNCHANGED <<inputs, other, io, by, num, ctx, active, keyHolders, decryptLog, stageLog>>

\* ser = enc.serialize()
DoSerialize ==
    /\ Running /\ Cur.op = "serialize"
    /\ IF Cur.src \notin DOMAIN ct
       THEN Fail("NameError") /\ UNCHANGED by
       ELSE by' = Bind(by, Cur.dst, Serialize(ct[Cur.src])) /\ Step
    /\ UNCHANGED <<inputs, other, io, ct, num, roles>>

\* enc = ts.ckks_vector_from(context, bytes) / ts.bfv_vector_from(context, bytes)
DoDeserialize ==
    /\ Running /\ Cur.op = "deserialize"
    /\ IF Cur.src \notin DOMAIN by
       THEN Fail("NameError") /\ UNCHANGED ct
       ELSE IF ~Loadable(Cur.aux, by[Cur.src])
       THEN Fail("ValueError") /\ UNCHANGED ct
       ELSE ct' = Bind(ct, Cur.dst, Deserialize(Cur.aux, by[Cur.src])) /\ Step
    /\ UNCHANGED <<inputs, other, io, by, num, roles>>

\* with open(file, "wb") as f: the file is created or truncated
DoOpenW ==
    /\ Running /\ Cur.op = "open_w"
    /\ files' = Bind(files, Cur.dst, File(<<>>, Role, TRUE))
    /\ fh' = [name |-> Cur.dst, mode |-> "w", pos |-> 0]
    /\ Step
    /\ UNCHANGED <<inputs, other, shortRead, leftover, store, roles>>

Appended(file, bytes) == [file EXCEPT !.data = file.data \o bytes]

\* f.write(len(ser).to_bytes(4, 'big'))
DoWriteLen ==
    /\ Running /\ Cur.op = "write_len"
    /\ IF Cur.src \notin DOMAIN by
       THEN Fail("NameError") /\ UNCHANGED files
       ELSE /\ files' = [files EXCEPT ![fh.name] = Appended(@, ToBytes4(Len(by[Cur.src])))]
            /\ Step
    /\ UNCHANGED <<inputs, other, fh, shortRead, leftover, store, roles>>

\* f.write(ser)
DoWrite ==
    /\ Running /\ Cur.op = "write"
    /\ IF Cur.src \notin DOMAIN by
       THEN Fail("NameError") /\ UNCHANGED files
       ELSE /\ files' = [files EXCEPT ![fh.name] = Appended(@, by[Cur.src])]
            /\ Step
    /\ UNCHANGED <<inputs, other, fh, shortRead, leftover, store, roles>>

\* the end of a with-block: the file is closed
DoClose ==
    /\ Running /\ Cur.op = "close"
    /\ files' = IF fh.mode = "w" THEN [files EXCEPT ![fh.name].open = FALSE] ELSE files
    /\ leftover' = IF fh.mode = "r" THEN Len(files[fh.name].data) - fh.pos ELSE leftover
    /\ fh' = Closed
    /\ Step
    /\ UNCHANGED <<inputs, other, shortRead, store, roles>>

\* with open(file, "rb") as f
DoOpenR ==
    /\ Running /\ Cur.op = "open_r"
    /\ IF Cur.src \notin DOMAIN files
       THEN Fail("FileNotFoundError") /\ UNCHANGED fh
       ELSE fh' = [name |-> Cur.src, mode |-> "r", pos |-> 0] /\ Step
    /\ UNCHANGED <<inputs, other, files, shortRead, leftover, store, roles>>

\* f.read(n): at most n bytes, fewer at end of file
ReadBytes(n) ==
    LET data == files[fh.name].data
        upto == IF fh.pos + n > Len(data) THEN Len(data) ELSE fh.pos + n
    IN SubSeq(data, fh.pos + 1, upto)

\* size = int.from_bytes(f.read(4), 'big')
DoReadLen ==
    /\ Running /\ Cur.op = "read_len"
    /\ LET raw == ReadBytes(4) IN
         /\ num' = Bind(num, Cur.dst, Rat(FromBytesBig(raw), 1))
         /\ fh' = [fh EXCEPT !.pos = @ + Len(raw)]
         /\ shortRead' = (shortRead \/ Len(raw) < 4)
    /\ Step
    /\ UNCHANGED <<inputs, other, files, leftover, ct, by, roles>>

\* bytes = f.read(size)
DoReadN ==
    /\ Running /\ Cur.op = "read_n"
    /\ LET raw == ReadBytes(num[Cur.src].n) IN
         /\ by' = Bind(by, Cur.dst, raw)
         /\ fh' = [fh EXCEPT !.pos = @ + Len(raw)]
         /\ shortRead' = (shortRead \/ Len(raw) < num[Cur.src].n)
    /\ Step
    /\ UNCHANGED <<inputs, other, files, leftover, ct, num, roles>>

\* bytes = f.read()
DoReadAll ==
    /\ Running /\ Cur.op = "read_all"
    /\ LET data == files[fh.name].data IN
         /\ by' = Bind(by, Cur.dst, SubSeq(data, fh.pos + 1, Len(data)))
         /\ fh' = [fh EXCEPT !.pos = Len(data)]
    /\ Step
    /\ UNCHANGED <<inputs, other, files, shortRead, leftover, ct, num, roles>>

\* the statement's ciphertext operand(s) are bound
Bound1 == Cur.src \in DOMAIN ct

CtStep(op, val, k) ==
    /\ ct' = Bind(ct, Cur.dst, val)
    /\ Logged(op, val.scheme, k, Cur.dst)
    /\ Step

CtFail(e) == Fail(e) /\ UNCHANGED <<ct, opLog>>

CtFrame == UNCHANGED <<inputs, other, io, by, num, ctx, active, keyHolders, decryptLog, stageLog>>

\* dst = src.sum()
DoSum ==
    /\ Running /\ Cur.op = "sum"
    /\ IF Bound1 THEN CtStep("sum", CtSum(ct[Cur.src]), <<1, 1>>) ELSE CtFail("NameError")
    /\ CtFrame

\* dst = src.mul(k) for a literal k
DoMulPlain ==
    /\ Running /\ Cur.op = "mul_plain"
    /\ IF ~Bound1 THEN CtFail("NameError")
       ELSE IF Exhausted(ct[Cur.src]) THEN CtFail("ValueError: scale out of bounds")
       ELSE CtStep("mul_plain", CtMulPlain(ct[Cur.src], Cur.k[1], Cur.k[2]), Cur.k)
    /\ CtFrame

\* dst = src * (1.0 / len(list))
DoMulInvLen ==
    /\ Running /\ Cur.op = "mul_inv_len"
    /\ IF ~Bound1 THEN CtFail("NameError")
       ELSE IF Len(List(Cur.aux)) = 0 THEN CtFail("ZeroDivisionError")
       ELSE IF Exhausted(ct[Cur.src]) THEN CtFail("ValueError: scale out of bounds")
       ELSE CtStep("mul_plain", CtMulPlain(ct[Cur.src], 1, Len(List(Cur.aux))),
                   <<1, Len(List(Cur.aux))>>)
    /\ CtFrame

\* dst = src + aux
DoAdd ==
    /\ Running /\ Cur.op = "add"
    /\ IF ~(Bound1 /\ Cur.aux \in DOMAIN ct) THEN CtFail("NameError")
       ELSE IF \/ ct[Cur.src].scheme # ct[Cur.aux].scheme
               \/ Len(ct[Cur.src].v) # Len(ct[Cur.aux].v)
       THEN CtFail("ValueError")
       ELSE CtStep("add", CtAdd(ct[Cur.src], ct[Cur.aux]), <<1, 1>>)
    /\ CtFrame

\* dst = src - m for a plaintext number m
DoSubPlain ==
    /\ Running /\ Cur.op = "sub_plain"
    /\ IF ~(Bound1 /\ Cur.aux \in DOMAIN num) THEN CtFail("NameError")
       ELSE CtStep("sub_plain", CtSubPlain(ct[Cur.src], num[Cur.aux]), <<1, 1>>)
    /\ CtFrame

\* dst = src ** 2
DoSquare ==
    /\ Running /\ Cur.op = "square"
    /\ IF ~Bound1 THEN CtFail("NameError")
       ELSE IF Exhausted(ct[Cur.src]) THEN CtFail("ValueError: scale out of bounds")
       ELSE CtStep("square", CtSquare(ct[Cur.src]), <<1, 1>>)
    /\ CtFrame

\* dst = src.decrypt()[0]: needs the secret key of the vector's context
DoDecrypt0 ==
    /\ Running /\ Cur.op = "decrypt0"
    /\ IF ~Bound1
       THEN Fail("NameError") /\ UNCHANGED <<num, decryptLog, opLog>>
       ELSE IF ~ctx["ctx_" \o ct[Cur.src].scheme].secret
       THEN Fail("ValueError") /\ UNCHANGED <<num, decryptLog, opLog>>
       ELSE /\ num' = Bind(num, Cur.dst, Decrypt0(ct[Cur.src]))
            /\ decryptLog' = decryptLog \cup {<<Role, Cur.src>>}
            /\ Logged("decrypt", ct[Cur.src].scheme, <<1, 1>>, Cur.dst)
            /\ Step
    /\ UNCHANGED <<inputs, other, io, ct, by, ctx, active, keyHolders, stageLog>>

\* dst = src / 200.0
DoDiv ==
    /\ Running /\ Cur.op = "div"
    /\ IF Cur.src \notin DOMAIN num
       THEN Fail("NameError") /\ UNCHANGED <<num, opLog>>
       ELSE /\ num' = Bind(num, Cur.dst, [num[Cur.src] EXCEPT !.d = @ * Cur.k[1]])
            /\ Logged("div", "plain", Cur.k, Cur.src)
            /\ Step
    /\ UNCHANGED <<inputs, other, io, ct, by, ctx, active, keyHolders, decryptLog, stageLog>>

\* dst = math.sqrt(src): ValueError on a negative argument
DoSqrt ==
    /\ Running /\ Cur.op = "sqrt"
    /\ IF Cur.src \notin DOMAIN num
       THEN Fail("NameError") /\ UNCHANGED num
       ELSE IF RatNeg(num[Cur.src])
       THEN Fail("ValueError") /\ UNCHANGED num
       ELSE /\ num' = Bind(num, Cur.dst,
                           [n |-> 1, d |-> 1, rn |-> num[Cur.src].n, rd |-> num[Cur.src].d])
            /\ Step
    /\ UNCHANGED <<inputs, other, io, ct, by, roles>>

\* dst = (list[0] - mean) / std: ZeroDivisionError when std is 0.0
DoZScore ==
    /\ Running /\ Cur.op = "zscore"
    /\ IF ~(Cur.k[1] \in DOMAIN num /\ Cur.k[2] \in DOMAIN num)
       THEN Fail("NameError") /\ UNCHANGED num
       ELSE LET mean == num[Cur.k[1]]
                std == num[Cur.k[2]]
            IN IF std.n = 0 \/ std.rn = 0
               THEN Fail("ZeroDivisionError") /\ UNCHANGED num
               ELSE /\ num' = Bind(num, Cur.dst,
                                   [n |-> List(Cur.src)[1] * mean.d - mean.n,
                                    d |-> mean.d, rn |-> std.rd, rd |-> std.rn])
                    /\ Step
    /\ UNCHANGED <<inputs, other, io, ct, by, roles>>

\* sum([(s + 0.1 * b) * 1.05 for s, b in zip(salaries_list, bonus_list)])
RealTotal ==
    Rat(SumSeq([i \in 1..Len(salaries_list) |->
                    (10 * salaries_list[i] + bonus_list[i]) * 21]), 200)

\* sum(list) / len(list)
RealMean(list) == Rat(SumSeq(list), Len(list))

\* sum([(x - mean)**2 for x in list]) / len(list), mean = sum(list) / len(list)
RealVar(list) ==
    LET n == Len(list)
        t == SumSeq(list)
    IN Rat(SumSeq([i \in 1..n |-> (list[i] * n - t) * (list[i] * n - t)]), n * n * n)

GroundTruth(what) ==
    CASE what = "real_salary_sum" -> Rat(SumSeq(salaries_list), 1)
      [] what = "real_bonus_sum" -> Rat(SumSeq(bonus_list), 1)
      [] what = "real_salary_mean" -> RealMean(salaries_list)
      [] what = "real_bonus_mean" -> RealMean(bonus_list)
      [] what = "real_salary_var" -> RealVar(salaries_list)
      [] what = "real_bonus_var" -> RealVar(bonus_list)
      [] what = "real_salary_mul" ->
            Rat(SumSeq([i \in 1..Len(salaries_list) |-> salaries_list[i] * 2]), 1)
      [] OTHER -> RealTotal

\* the ground truth calculations of the verification section
DoGroundTruth ==
    /\ Running /\ Cur.op = "ground_truth"
    /\ num' = Bind(num, Cur.dst, GroundTruth(Cur.dst))
    /\ Step
    /\ UNCHANGED <<inputs, other, io, ct, by, roles>>

\* the script ran off its last statement
Finish ==
    /\ status = "running" /\ pc > Len(Prog)
    /\ status' = "done"
    /\ UNCHANGED <<inputs, other, pc, io, store, roles>>

Next ==
    \/ DoCleanup \/ DoSetup \/ DoCall \/ DoReturn \/ DoRetval
    \/ DoEncrypt \/ DoSerialize \/ DoDeserialize
    \/ DoOpenW \/ DoWriteLen \/ DoWrite \/ DoClose
    \/ DoOpenR \/ DoReadLen \/ DoReadN \/ DoReadAll
    \/ DoSum \/ DoMulPlain \/ DoMulInvLen \/ DoAdd \/ DoSubPlain \/ DoSquare
    \/ DoDecrypt0 \/ DoDiv \/ DoSqrt \/ DoZScore \/ DoGroundTruth
    \/ Finish

Spec == Init /\ [][Next]_vars

\* the interpreter runs the script to its end: a pending statement is executed
FairSpec == Spec /\ WF_vars(Next)

(***************************************************************************)
(* Framing runs                                                            *)
(***************************************************************************)
\* the bytes variables a program writes
WriteSources(prog) ==
    {prog[i].src : i \in {j \in 1..Len(prog) : prog[j].op \in {"write_len", "write"}}}

\* a writer and its reader on arbitrary slot contents, or a reader on an
\* arbitrary blob
InitFraming ==
    /\ salaries_list = <<>>
    /\ bonus_list = <<>>
    /\ \/ /\ script \in DOMAIN RoundTrips
          /\ by \in [WriteSources(RoundTrips[script]) -> SlotVals]
          /\ files = NoVars
       \/ /\ script \in DOMAIN Readers
          /\ by = NoVars
          /\ \E blob \in SeqsOf(Bytes, 0, MaxBlobLen) :
                files = ("blob.dat" :> File(blob, "unknown", FALSE))
    /\ other = NoOther
    /\ InitRun

NextFraming ==
    \/ DoOpenW \/ DoWriteLen \/ DoWrite \/ DoClose
    \/ DoOpenR \/ DoReadLen \/ DoReadN \/ DoReadAll
    \/ Finish

FramingSpec == InitFraming /\ [][NextFraming]_vars

(***************************************************************************)
(* Two runs in one working directory: the script and, beside it, a run of  *)
(* the other script.  The second run is followed stage by stage (cleanup() *)
(* and each call of a holder_* or analyzer_* function is one stage), by    *)
(* what the stage does to the files of the directory.  Its blobs hold      *)
(* ciphertexts under its own keys; other.payload is what they decrypt to   *)
(* under the keys of this run, which can be anything.                      *)
(***************************************************************************)
\* the statements of a program that start a stage
StageStarts(prog) ==
    SelectSeq([i \in 1..Len(prog) |-> i], LAMBDA i : prog[i].op \in {"cleanup", "call"})

RECURSIVE StageEnd(_, _)
\* a call's stage ends at its return; cleanup() is a stage of its own
StageEnd(prog, i) ==
    IF prog[i].op \in {"cleanup", "return"} THEN i ELSE StageEnd(prog, i + 1)

Stages(prog) ==
    [k \in 1..Len(StageStarts(prog)) |->
        SubSeq(prog, StageStarts(prog)[k], StageEnd(prog, StageStarts(prog)[k]))]

StagesV1 == Stages(ProgV1)

StagesV2 == Stages(ProgV2)

OtherStages == IF other.script = "v1" THEN StagesV1 ELSE StagesV2

\* the files a stage opens for reading, and for writing
StageReads(st) == {st[j].src : j \in {i \in 1..Len(st) : st[i].op = "open_r"}}

StageWrites(st) == {st[j].dst : j \in {i \in 1..Len(st) : st[i].op = "open_w"}}

RECURSIVE StageBytes(_, _)
\* the bytes the write statements of a stage put in its file, every
\* serialized vector being ser
StageBytes(st, ser) ==
    IF st = <<>> THEN <<>>
    ELSE (CASE Head(st).op = "write_len" -> ToBytes4(Len(ser))
            [] Head(st).op = "write" -> ser
            [] OTHER -> <<>>) \o StageBytes(Tail(st), ser)

\* a serialized vector of the second run, as this run's context loads it
OtherSer(st) ==
    Serialize(Encrypt(IF st[1].aux = "ctx_ckks" THEN "ckks" ELSE "bfv", other.payload))

\* the second run takes its next stage between two stages of this run
OtherRuns ==
    /\ Running /\ active = <<>> /\ Cur.op \in {"cleanup", "call"}
    /\ other.status = "running" /\ other.pc <= Len(OtherStages)

\* cleanup() of the second run
OtherCleanup ==
    /\ OtherRuns /\ OtherStages[other.pc][1].op = "cleanup"
    /\ LET gone == IF other.script = "v1" THEN CleanupFilesV1 ELSE CleanupFilesV2 IN
       files' = [f \in (DOMAIN files) \ gone |-> files[f]]
    /\ other' = [other EXCEPT !.pc = @ + 1]
    /\ UNCHANGED <<inputs, pc, status, fh, shortRead, leftover, store, roles>>

\* a holder_* or analyzer_* call of the second run: open(.., "rb") of a
\* missing file ends that run; otherwise the file it writes is replaced
OtherStage ==
    /\ OtherRuns /\ OtherStages[other.pc][1].op = "call"
    /\ LET st == OtherStages[other.pc] IN
       IF StageReads(st) \subseteq DOMAIN files
       THEN /\ files' = [f \in StageWrites(st) |->
                            File(StageBytes(st, OtherSer(st)), "other", FALSE)] @@ files
            /\ other' = [other EXCEPT !.pc = @ + 1]
       ELSE /\ other' = [other EXCEPT !.status = "FileNotFoundError"]
            /\ UNCHANGED files
    /\ UNCHANGED <<inputs, pc, status, fh, shortRead, leftover, store, roles>>

InitShared ==
    /\ script \in {"v1", "v2"}
    /\ \E n \in 1..MaxSharedN :
          /\ salaries_list \in [1..n -> SalaryVals]
          /\ bonus_list \in [1..n -> BonusVals]
          /\ \E g \in [1..n -> BonusVals] :
                other = [script |-> IF script = "v1" THEN "v2" ELSE "v1",
                         pc |-> 1, status |-> "running", payload |-> g]
    /\ files = NoVars
    /\ by = NoVars
    /\ InitRun

NextShared == Next \/ OtherCleanup \/ OtherStage

SharedDirSpec == InitShared /\ [][NextShared]_vars

(***************************************************************************)
(* Properties                                                              *)
(***************************************************************************)
Has(f, name) == name \in DOMAIN f

Fields == {"salary", "bonus"}

FieldList(f) == IF f = "salary" THEN salaries_list ELSE bonus_list

\* 21 * sum_i (10 * S_i + B_i), over the integers
ScaledTotal ==
    21 * SumSeq([i \in 1..Len(salaries_list) |-> 10 * salaries_list[i] + bonus_list[i]])

\* x is a value the signed decoding of a residue can give
InSignedRange(x) == 2 * x <= PlainModulus /\ 2 * x > 0 - PlainModulus

\* the variables the BFV total ends up in (FHE_code.py, FHE_code_v2.py)
BfvTotals == {"final_bfv", "bfv_stats.total_result"}

\* C1: whenever the scaled total 21 * sum(10 S_i + B_i) lies in the signed
\* range of the plaintext modulus, the numerator the holder decrypts is that
\* total and the value R the BFV pipeline returns satisfies
\* 200 * R = 21 * sum(10 S_i + B_i); it equals the ground truth real_total.
C1_BfvExact ==
    InSignedRange(ScaledTotal) =>
        /\ Has(num, "hd_bfv.total_numerator") =>
              num["hd_bfv.total_numerator"] = Rat(ScaledTotal, 1)
        /\ \A r \in BfvTotals \cap DOMAIN num :
              /\ 200 * num[r].n = ScaledTotal * num[r].d
              /\ num[r].rn = 1 /\ num[r].rd = 1
              /\ Has(num, "real_total") => RatEq(num[r], num["real_total"])

\* a BFV run returned a negative total of two rows that lies in range
C1_Witness ==
    /\ Has(num, "final_bfv")
    /\ InSignedRange(ScaledTotal)
    /\ ScaledTotal < 0
    /\ Len(salaries_list) = 2

\* max |field value| x sum of |integer multipliers| x post-multiplier x rows
WorstCaseMagnitude ==
    MaxAbs(salaries_list \o bonus_list) * (10 + 1) * 21 * Len(salaries_list)

\* C2: when the worst-case scaled magnitude is not strictly below the
\* plaintext modulus, the BFV run stops with OverflowBudgetError before any
\* BFV ciphertext operation, and returns no total.
C2_OverflowGuard ==
    WorstCaseMagnitude >= PlainModulus =>
        /\ \A i \in 1..Len(opLog) : opLog[i].scheme # "bfv"
        /\ BfvTotals \cap DOMAIN num = {}
        /\ (Has(ctx, "ctx_bfv") /\ stageLog # <<>>
              /\ stageLog[Len(stageLog)] = "holder_encrypt_bfv")
              => status = "OverflowBudgetError"

\* C3: every decryption is the holder's, and no context holding the secret
\* key is handed to the analyzer.
C3_DecryptOnlyByHolder ==
    /\ \A e \in decryptLog : e[1] = "holder"
    /\ "analyzer" \notin keyHolders

\* C4: the input blob (4-byte big-endian len(s), s, b) written by
\* holder_encrypt_* is read back by analyzer_process_* as exactly (s, b),
\* with nothing short and nothing left over, on the CKKS and the BFV path.
C4_InputBlobRoundTrip ==
    /\ (script = "rt_in_ckks_v1" /\ status = "done") =>
          /\ by["ap_ckks.bytes_s"] = by["he_ckks.ser_s"]
          /\ by["ap_ckks.bytes_b"] = by["he_ckks.ser_b"]
          /\ ~shortRead /\ leftover = 0
    /\ (script = "rt_in_bfv_v1" /\ status = "done") =>
          /\ by["ap_bfv.bytes_s"] = by["he_bfv.ser_s"]
          /\ by["ap_bfv.bytes_b"] = by["he_bfv.ser_b"]
          /\ ~shortRead /\ leftover = 0

\* a round trip of two different non-empty slots has finished
C4_Witness ==
    /\ script = "rt_in_bfv_v1" /\ status = "done"
    /\ by["he_bfv.ser_s"] = <<1>>
    /\ by["he_bfv.ser_b"] = <<0>>

\* C5: a reader that met a slot shorter than its prefix announces, or that
\* left bytes unread when it closed the blob, does not get through its
\* with-block: it has failed with FramingError.
C5_MalformedRejected ==
    (pc > Len(Prog) /\ (shortRead \/ leftover > 0)) => status = "FramingError"

\* the stage of the statistics protocol each variable of the code marks
StatMarks(f) ==
    << Has(ct, "ap_ckks.enc_" \o f \o "_mean"),        \* SumComputed
       Has(num, "ap_ckks." \o f \o "_mean_plain"),     \* MeanDisclosed
       Has(ct, "ap_ckks.enc_" \o f \o "_variance"),    \* VarianceComputed
       Has(num, "hd_ckks." \o f \o "_std") >>          \* Finalized

\* number of stages passed (0 = Raw)
StatLevel(f) == Cardinality({i \in 1..4 : StatMarks(f)[i]})

\* the stages passed are an initial segment of the protocol
StatInOrder(f) ==
    /\ \A i \in 2..4 : StatMarks(f)[i] => StatMarks(f)[i - 1]
    /\ Has(ct, "ap_ckks." \o f \o "_centered") => StatMarks(f)[2]
    /\ Has(ct, "ap_ckks." \o f \o "_squared") => StatMarks(f)[2]
    /\ StatMarks(f)[4] => Has(num, "hd_ckks." \o f \o "_var")

\* the StatisticsBundle of a field
BundleOf(f) ==
    {"ckks_stats." \o f \o "_mean", "ckks_stats." \o f \o "_variance",
     "ckks_stats." \o f \o "_std"}

\* C6: each field passes Raw, SumComputed, MeanDisclosed, VarianceComputed,
\* Finalized in this order, one stage at a time and never backwards; the
\* variance step starts only after the mean is disclosed, the standard
\* deviation is taken only after the variance is decrypted, and every run of
\* the statistics script reaches Finalized and yields the bundle.
C6_StatisticsProtocol ==
    /\ [](\A f \in Fields : StatInOrder(f))
    /\ [][\A f \in Fields : StatLevel(f)' \in {StatLevel(f), StatLevel(f) + 1}]_vars
    /\ (script = "v2") ~> (\A f \in Fields : StatLevel(f) = 4 /\ BundleOf(f) \subseteq DOMAIN num)

\* a field is Finalized and its bundle is there
C6_Witness ==
    /\ StatLevel("bonus") = 4
    /\ BundleOf("bonus") \subseteq DOMAIN num
    /\ Len(bonus_list) = 2

\* C7: the mean subtracted in the variance step is decrypt(sum(v))/N of the
\* same field, and the very same value is reported as the field's mean and
\* used for the z-score.
C7_MeanIntegrity ==
    \A f \in Fields :
        LET p == "ap_ckks."
            list == FieldList(f)
            n == Len(list)
            t == SumSeq(list)
            mp == p \o f \o "_mean_plain"
            enc == IF f = "salary" THEN p \o "enc_s" ELSE p \o "enc_b"
        IN
        /\ (Has(num, mp) /\ Has(ct, p \o f \o "_sum")) =>
              /\ RatEq(num[mp], [Decrypt0(ct[p \o f \o "_sum"]) EXCEPT !.d = @ * n])
              /\ RatEq(num[mp], Rat(t, n))
        /\ (Has(ct, p \o f \o "_centered") /\ Has(ct, enc)) =>
              /\ Has(num, mp)
              /\ LET c == ct[p \o f \o "_centered"] IN
                 \A i \in 1..Len(c.v) : c.v[i] * n = (list[i] * n - t) * c.d
        /\ Has(num, "ckks_stats." \o f \o "_mean") =>
              Has(num, mp) /\ num["ckks_stats." \o f \o "_mean"] = num[mp]
        /\ Has(num, "z_score_" \o f \o "_first") =>
              LET z == num["z_score_" \o f \o "_first"] IN
              z.n * n = (list[1] * n - t) * z.d

\* both z-scores were computed and the two fields have different means
C7_Witness ==
    /\ Has(num, "z_score_bonus_first")
    /\ SumSeq(salaries_list) # SumSeq(bonus_list)

\* C8: the variance the analyzer computes, and the one the holder reports, is
\* the population variance (1/N) sum (x_i - m)^2 with m = (1/N) sum x_i: the
\* ground truth real_salary_var / real_bonus_var.
C8_Variance ==
    \A f \in Fields :
        LET list == FieldList(f)
            ev == "ap_ckks.enc_" \o f \o "_variance"
            rv == "ckks_stats." \o f \o "_variance"
            gt == "real_" \o f \o "_var"
        IN
        /\ Has(ct, ev) => RatEq(Decrypt0(ct[ev]), RealVar(list))
        /\ Has(num, rv) => RatEq(num[rv], RealVar(list))
        /\ (Has(num, rv) /\ Has(num, gt)) => RatEq(num[rv], num[gt])

\* the verification section compared a non-zero variance
C8_Witness ==
    /\ Has(num, "real_salary_var") /\ Has(num, "ckks_stats.salary_variance")
    /\ num["real_salary_var"].n # 0

\* C9: the result blob of k length-prefixed slots is read back as k slots,
\* the i-th read bound to the quantity written i-th, byte for byte, with
\* nothing short and nothing left over.
C9_ResultBlobRoundTrip ==
    /\ (script = "rt_res_ckks_stats" /\ status = "done") =>
          /\ by["hd_ckks.raw_enc_sal_mean"] = by["ap_ckks.ser_sal_mean"]
          /\ by["hd_ckks.raw_enc_sal_var"] = by["ap_ckks.ser_sal_var"]
          /\ by["hd_ckks.raw_enc_bon_mean"] = by["ap_ckks.ser_bon_mean"]
          /\ by["hd_ckks.raw_enc_bon_var"] = by["ap_ckks.ser_bon_var"]
          /\ by["hd_ckks.raw_enc_total"] = by["ap_ckks.ser_total"]
          /\ ~shortRead /\ leftover = 0
    /\ (script = "rt_res_bfv_stats" /\ status = "done") =>
          /\ by["hd_bfv.raw_enc_sal_sum"] = by["ap_bfv.ser_sal_sum"]
          /\ by["hd_bfv.raw_enc_bon_sum"] = by["ap_bfv.ser_bon_sum"]
          /\ by["hd_bfv.raw_enc_total"] = by["ap_bfv.ser_total"]
          /\ ~shortRead /\ leftover = 0
    /\ (script = "rt_res_ckks_v1" /\ status = "done") =>
          by["hd_ckks.b5"] = by["ap_ckks.ser_total"] /\ ~shortRead /\ leftover = 0
    /\ (script = "rt_res_bfv_v1" /\ status = "done") =>
          by["hd_bfv.b3"] = by["ap_bfv.ser_total"] /\ ~shortRead /\ leftover = 0

\* a five-slot round trip with slots of different lengths has finished
C9_Witness ==
    /\ script = "rt_res_ckks_stats" /\ status = "done"
    /\ by["ap_ckks.ser_sal_var"] = <<1>>
    /\ by["ap_ckks.ser_bon_var"] = <<>>
    /\ by["ap_ckks.ser_total"] = <<0>>

EncryptFns == {"holder_encrypt_ckks", "holder_encrypt_bfv"}

ProcessFns ==
    {"analyzer_process_ckks", "analyzer_process_bfv",
     "analyzer_process_ckks_addition", "analyzer_process_bfv_addition",
     "analyzer_process_ckks_multiplication", "analyzer_process_bfv_multiplication"}

DecryptFns ==
    {"holder_decrypt_ckks", "holder_decrypt_bfv",
     "holder_decrypt_ckks_simple", "holder_decrypt_bfv_simple"}

\* C10: the stages of every run are called in the order encrypt, process,
\* decrypt; at most one role is active; no file is open between stages; and
\* a blob is read only after the other role has written and closed it.
C10_StageOrder ==
    /\ \A i \in 1..Len(stageLog) :
          stageLog[i] \in (CASE i % 3 = 1 -> EncryptFns
                             [] i % 3 = 2 -> ProcessFns
                             [] OTHER -> DecryptFns)
    /\ Len(active) <= 1
    /\ active = <<>> => fh = Closed
    /\ fh.mode = "r" =>
          /\ ~files[fh.name].open
          /\ files[fh.name].writer = (IF Role = "analyzer" THEN "holder" ELSE "analyzer")
    /\ status \notin {"NameError", "FileNotFoundError"}

\* the holder is reading the result blob of the third stage of a run
C10_Witness ==
    /\ Len(stageLog) = 6
    /\ Role = "holder"
    /\ fh.mode = "r"
    /\ fh.pos > 0

\* the operations logged so far by call c of a function
OpsOfCall(c) == SelectSeq(opLog, LAMBDA e : e.call = c)

\* call c has run to its return statement
Returned(c) == c < Len(stageLog) \/ active = <<>>

\* the operations the analyzer has applied to BFV ciphertexts
AnalyzerBfvOps == SelectSeq(opLog, LAMBDA e : e.role = "analyzer" /\ e.scheme = "bfv")

\* the plaintext divisions executed so far
Divisions == SelectSeq(opLog, LAMBDA e : e.op = "div")

\* the scalar multipliers of a sequence of operations, in order
Multipliers(ops) ==
    LET muls == SelectSeq(ops, LAMBDA e : e.op = "mul_plain")
    IN [i \in 1..Len(muls) |-> muls[i].k]

\* a division is the holder's, inside a BFV decrypt function, by 200, of a
\* scalar that the same call decrypted from a BFV ciphertext before it
DivisionAfterDecrypt(i) ==
    LET e == opLog[i] IN
    e.op = "div" =>
        /\ e.role = "holder"
        /\ e.k = <<200, 1>>
        /\ \E j \in 1..(i - 1) :
              /\ opLog[j].op = "decrypt" /\ opLog[j].scheme = "bfv"
              /\ opLog[j].role = "holder"
              /\ opLog[j].call = e.call /\ opLog[j].var = e.var

BfvDecryptFns == {"holder_decrypt_bfv", "holder_decrypt_bfv_simple"}

BfvProcessFns == {"analyzer_process_bfv", "analyzer_process_bfv_addition",
                  "analyzer_process_bfv_multiplication"}

\* C11 as stated: in every BFV run the analyzer applies only scalar
\* multiplications by 10 and 21, additions and sums, and every BFV decrypt
\* that has returned divided its decrypted scalar by 200 exactly once.
C11_EveryRunDividesBy200 ==
    /\ \A i \in 1..Len(AnalyzerBfvOps) :
          /\ AnalyzerBfvOps[i].op \in {"mul_plain", "add", "sum"}
          /\ AnalyzerBfvOps[i].op = "mul_plain"
                => AnalyzerBfvOps[i].k \in {<<10, 1>>, <<21, 1>>}
    /\ \A i \in 1..Len(opLog) : DivisionAfterDecrypt(i)
    /\ \A c \in 1..Len(stageLog) :
          (stageLog[c] \in BfvDecryptFns /\ Returned(c))
             => Len(SelectSeq(OpsOfCall(c), LAMBDA e : e.op = "div")) = 1

\* C11: in every BFV run the analyzer applies only integer scalar
\* multiplications, additions and sums, never a division or a non-integer
\* constant, and a division is applied only by the holder to a scalar it has
\* decrypted before; in the runs of the business formula
\* (analyzer_process_bfv, holder_decrypt_bfv) the multipliers are 10 then 21
\* and the decrypted scalar is divided by 200 exactly once.
C11_DivisionAfterDecrypt ==
    /\ \A i \in 1..Len(AnalyzerBfvOps) :
          /\ AnalyzerBfvOps[i].op \in {"mul_plain", "add", "sum"}
          /\ AnalyzerBfvOps[i].k[2] = 1
    /\ \A i \in 1..Len(opLog) : DivisionAfterDecrypt(i)
    /\ \A c \in 1..Len(stageLog) :
          /\ stageLog[c] \in BfvProcessFns
                => \A i \in 1..Len(OpsOfCall(c)) : OpsOfCall(c)[i].op # "div"
          /\ (stageLog[c] = "analyzer_process_bfv" /\ Returned(c))
                => Multipliers(OpsOfCall(c)) = << <<10, 1>>, <<21, 1>> >>
          /\ (stageLog[c] = "holder_decrypt_bfv" /\ Returned(c))
                => Len(SelectSeq(OpsOfCall(c), LAMBDA e : e.op = "div")) = 1
          /\ stageLog[c] = "holder_decrypt_bfv_simple"
                => \A i \in 1..Len(OpsOfCall(c)) : OpsOfCall(c)[i].op # "div"

\* FHE_code_v2.py has run to its end: the formula run divided once, the
\* benchmark runs multiplied by 2 and divided nothing
C11_Witness ==
    /\ script = "v2" /\ status = "done"
    /\ Len(Divisions) = 1
    /\ \E i \in 1..Len(AnalyzerBfvOps) : AnalyzerBfvOps[i].k = <<2, 1>>
\* C12: a run beside a run of the other script reads only blobs it wrote
\* itself, never misses a file it wrote, and returns the CKKS total it
\* returns when it runs alone.
C12_RunsIndependent ==
    /\ fh.mode = "r" => files[fh.name].writer \in {"holder", "analyzer"}
    /\ status # "FileNotFoundError"
    /\ \A r \in {"final_ckks", "ckks_stats.total_result"} \cap DOMAIN num :
          RatEq(num[r], RealTotal)
\* the number of chained multiplications behind each result of the CKKS
\* analyzer: mean, variance, formula total, salaries times 2
CkksDepth ==
    [ap_ckks_mean |-> 1, ap_ckks_variance |-> 2, ap_ckks_total |-> 2, apm_ckks |-> 1]

\* C13: no CKKS ciphertext is the result of more than 2 chained
\* multiplications (the mean of 1, the variance of 2, the formula total of 2,
\* the salaries times 2 of 1), which is within the 3 levels of the context,
\* and no multiplication fails for want of a level.
C13_DepthWithinBudget ==
    /\ status # "ValueError: scale out of bounds"
    /\ \A c \in DOMAIN ct : ct[c].scheme = "ckks" => ct[c].lvl <= 2 /\ ct[c].lvl <= DepthBudget
    /\ \A f \in Fields :
          /\ Has(ct, "ap_ckks.enc_" \o f \o "_mean")
                => ct["ap_ckks.enc_" \o f \o "_mean"].lvl = CkksDepth.ap_ckks_mean
          /\ Has(ct, "ap_ckks.enc_" \o f \o "_variance")
                => ct["ap_ckks.enc_" \o f \o "_variance"].lvl = CkksDepth.ap_ckks_variance
    /\ Has(ct, "ap_ckks.enc_total") => ct["ap_ckks.enc_total"].lvl = CkksDepth.ap_ckks_total
    /\ Has(ct, "apm_ckks.enc_result") => ct["apm_ckks.enc_result"].lvl = CkksDepth.apm_ckks
    /\ Has(ct, "hd_ckks.enc_total") => ct["hd_ckks.enc_total"].lvl = CkksDepth.ap_ckks_total

\* FHE_code_v2.py has computed the variances, the formula total and the
\* salaries times 2, and the holder has loaded the total at its level
C13_Witness ==
    /\ script = "v2"
    /\ Has(ct, "apm_ckks.enc_result")
    /\ Has(ct, "ap_ckks.enc_salary_variance") /\ ct["ap_ckks.enc_salary_variance"].lvl = 2
    /\ Has(ct, "hd_ckks.enc_total") /\ ct["hd_ckks.enc_total"].lvl = 2
\* C14: the variance the holder passes to math.sqrt is not negative, the
\* standard deviation the z-score divides by is not zero, and the run does
\* not stop with an arithmetic failure.
C14_FinalizationSucceeds ==
    /\ \A f \in Fields :
          /\ Has(num, "ckks_stats." \o f \o "_variance")
                => ~RatNeg(num["ckks_stats." \o f \o "_variance"])
          /\ Has(num, "ckks_stats." \o f \o "_std")
                => /\ num["ckks_stats." \o f \o "_std"].n # 0
                   /\ num["ckks_stats." \o f \o "_std"].rn # 0
    /\ status \notin {"ZeroDivisionError", "ValueError"}
====
